---------------------------- MODULE Spec2Model ----------------------------
(***************************************************************************)
(* HmacOperation of src/hmac_operation.cpp as a state machine.             *)
(*                                                                         *)
(* One operation instance (the fields of HmacOperation and of its          *)
(* Operation base), the caller-owned buffers its calls read and write, and *)
(* the return value of the last call.  The hash engine (OpenSSL's HMAC)    *)
(* is modelled by what its API promises: a context that accumulates the    *)
(* bytes it is fed and a digest that is a function of (md, key, bytes).    *)
(***************************************************************************)
EXTENDS Integers, Sequences, FiniteSets, TLC

(***************************************************************************)
(* Bounds of the model.                                                    *)
(***************************************************************************)
MaxMsgLen == 2       \* total number of bytes fed through Update
MaxUpdates == 2      \* Update calls on one instance

(***************************************************************************)
(* Program constants.                                                      *)
(***************************************************************************)
EVP_MAX_MD_SIZE == 64

KM_ERROR_OK == "KM_ERROR_OK"
KM_ERROR_UNSUPPORTED_PURPOSE == "KM_ERROR_UNSUPPORTED_PURPOSE"
KM_ERROR_UNSUPPORTED_DIGEST == "KM_ERROR_UNSUPPORTED_DIGEST"
KM_ERROR_UNSUPPORTED_MAC_LENGTH == "KM_ERROR_UNSUPPORTED_MAC_LENGTH"
KM_ERROR_INVALID_INPUT_LENGTH == "KM_ERROR_INVALID_INPUT_LENGTH"
KM_ERROR_VERIFICATION_FAILED == "KM_ERROR_VERIFICATION_FAILED"
KM_ERROR_UNKNOWN_ERROR == "KM_ERROR_UNKNOWN_ERROR"

KM_PURPOSE_ENCRYPT == "KM_PURPOSE_ENCRYPT"
KM_PURPOSE_SIGN == "KM_PURPOSE_SIGN"
KM_PURPOSE_VERIFY == "KM_PURPOSE_VERIFY"
Purposes == {KM_PURPOSE_ENCRYPT, KM_PURPOSE_SIGN, KM_PURPOSE_VERIFY}

KM_DIGEST_NONE == "KM_DIGEST_NONE"
KM_DIGEST_SHA_2_224 == "KM_DIGEST_SHA_2_224"
KM_DIGEST_SHA_2_256 == "KM_DIGEST_SHA_2_256"
KM_DIGEST_SHA_2_384 == "KM_DIGEST_SHA_2_384"
KM_DIGEST_SHA_2_512 == "KM_DIGEST_SHA_2_512"
SupportedDigests ==
    {KM_DIGEST_SHA_2_224, KM_DIGEST_SHA_2_256, KM_DIGEST_SHA_2_384, KM_DIGEST_SHA_2_512}
Digests == SupportedDigests \cup {KM_DIGEST_NONE}

NoMd == "NULL"
EVP_sha224 == "EVP_sha224"
EVP_sha256 == "EVP_sha256"
EVP_sha384 == "EVP_sha384"
EVP_sha512 == "EVP_sha512"

(***************************************************************************)
(* size_t.  A 64-bit unsigned value is kept as four 16-bit limbs           *)
(* <<w3, w2, w1, w0>> (most significant first), so that the conversion to  *)
(* int of line 50 keeps its width.                                         *)
(***************************************************************************)
Limb == 2 ^ 16

SizeT(n) == <<0, 0, n \div Limb, n % Limb>>

FitsInt(t) == t[1] = 0 /\ t[2] = 0 /\ t[3] < Limb \div 2

\* The value of a size_t that fits a non-negative int.
SizeVal(t) == t[3] * Limb + t[4]

\* (int)t : the low 32 bits, read as two's complement.
CastInt(t) ==
    IF t[3] >= Limb \div 2 THEN (t[3] - Limb) * Limb + t[4] ELSE t[3] * Limb + t[4]

\* a == t for a buffer length a (a small natural) and a size_t t.
SizeEq(a, t) == FitsInt(t) /\ SizeVal(t) = a

\* t <= a for a size_t t and a small natural a.
SizeLeq(t, a) == FitsInt(t) /\ SizeVal(t) <= a

(***************************************************************************)
(* Bytes and byte strings.                                                 *)
(***************************************************************************)
Take(s, n) == SubSeq(s, 1, n)

SeqsUpTo(S, n) == UNION {[1..k -> S] : k \in 0..n}

\* b with bit k (0..7) flipped.
FlipBit(b, k) == IF (b \div (2 ^ k)) % 2 = 1 THEN b - 2 ^ k ELSE b + 2 ^ k

FlipAt(s, p, k) == [s EXCEPT ![p] = FlipBit(s[p], k)]

(***************************************************************************)
(* The hash engine.                                                        *)
(***************************************************************************)
\* EVP_MD_size of the four hash functions the constructor selects.
EVP_MD_size(md) ==
    CASE md = EVP_sha224 -> 28
      [] md = EVP_sha256 -> 32
      [] md = EVP_sha384 -> 48
      [] md = EVP_sha512 -> 64

RECURSIVE Absorb(_, _)
Absorb(acc, s) ==
    IF s = <<>> THEN acc ELSE Absorb((acc * 31 + s[1] + 1) % 65521, Tail(s))

\* HMAC-md(key, msg): the digest HMAC_Final produces for a context keyed with
\* (md, key) that was fed msg.  A stand-in for the real function that keeps
\* what the operation relies on: EVP_MD_size(md) bytes, a function of
\* md, key and msg alone.
HMAC(md, key, msg) ==
    LET seed == Absorb(Absorb(EVP_MD_size(md), key) * 7 + 3, msg)
    IN  [i \in 1..EVP_MD_size(md) |-> (seed * i + (seed \div 256) + i * i) % 256]

\* HMAC_CTX_init: a context with no hash function and no key.
HMAC_CTX_init == [st |-> "init", md |-> NoMd, key |-> <<>>, data |-> <<>>]

\* HMAC_Init_ex: binds key and md and returns 1, or fails and returns 0.
HMAC_Init_ex(ctx, key, md, ok) ==
    IF ok THEN [st |-> "keyed", md |-> md, key |-> key, data |-> <<>>] ELSE ctx

\* HMAC_Update on a keyed context: appends the bytes and returns 1, or fails.
HMAC_Update(ctx, bytes, ok) ==
    IF ok THEN [ctx EXCEPT !.data = @ \o bytes] ELSE ctx

\* HMAC_Final on a keyed context: the context is finalized.
HMAC_Final(ctx, ok) ==
    IF ok THEN [ctx EXCEPT !.st = "final"] ELSE ctx

\* HMAC_CTX_cleanup.
HMAC_CTX_cleanup(ctx) == [st |-> "clean", md |-> NoMd, key |-> <<>>, data |-> <<>>]

\* A context the engine can work on: HMAC_Update and HMAC_Final on a context
\* that HMAC_Init_ex never keyed are outside the engine's contract.
Keyed(ctx) == ctx.st = "keyed"

(***************************************************************************)
(* The operation: its methods as functions of the fields they read.        *)
(***************************************************************************)
\* The switch of the constructor: the hash function of a digest selector,
\* NoMd for a selector the switch sends to its default branch.
SelectMd(digest) ==
    CASE digest = KM_DIGEST_SHA_2_224 -> EVP_sha224
      [] digest = KM_DIGEST_SHA_2_256 -> EVP_sha256
      [] digest = KM_DIGEST_SHA_2_384 -> EVP_sha384
      [] digest = KM_DIGEST_SHA_2_512 -> EVP_sha512
      [] OTHER -> NoMd

TagTooLong_RejectsZero(tag_length, md) ==
    CastInt(tag_length) <= 0 \/ CastInt(tag_length) > EVP_MD_size(md)

\* The tag-length check of the constructor.
TagTooLong(tag_length, md) == CastInt(tag_length) > EVP_MD_size(md)

\* HmacOperation::HmacOperation: the fields after construction.  initOk is
\* the result of HMAC_Init_ex, which the constructor does not look at.
HmacOperation(purpose, key_data, digest, tag_length, initOk) ==
    LET md == SelectMd(digest)
        base == [purpose_ |-> purpose, error_ |-> KM_ERROR_OK,
                 tag_length_ |-> tag_length, ctx_ |-> HMAC_CTX_init]
    IN  IF md = NoMd
          THEN [base EXCEPT !.error_ = KM_ERROR_UNSUPPORTED_DIGEST]
        ELSE IF TagTooLong(tag_length, md)
          THEN [base EXCEPT !.error_ = KM_ERROR_UNSUPPORTED_MAC_LENGTH]
        ELSE [base EXCEPT !.ctx_ = HMAC_Init_ex(base.ctx_, key_data, md, initOk)]

BeginResult_AlwaysOk(err) == KM_ERROR_OK

\* HmacOperation::Begin: its return value.
BeginResult(err) == err

AbortResult_Fails == KM_ERROR_UNKNOWN_ERROR

\* HmacOperation::Abort: its return value.
AbortResult == KM_ERROR_OK

UpdateResult_FirstByteOnly(ctx, input, ok) ==
    IF ~ok
      THEN [ret |-> KM_ERROR_UNKNOWN_ERROR, ctx_ |-> HMAC_Update(ctx, input, FALSE),
            input_consumed |-> <<>>]
      ELSE [ret |-> KM_ERROR_OK,
            ctx_ |-> HMAC_Update(ctx, IF input = <<>> THEN input ELSE <<input[1]>>, TRUE),
            input_consumed |-> <<Len(input)>>]

UpdateResult_WritesBeforeCheck(ctx, input, ok) ==
    IF ~ok
      THEN [ret |-> KM_ERROR_UNKNOWN_ERROR, ctx_ |-> HMAC_Update(ctx, input, FALSE),
            input_consumed |-> <<Len(input)>>]
      ELSE [ret |-> KM_ERROR_OK, ctx_ |-> HMAC_Update(ctx, input, TRUE),
            input_consumed |-> <<Len(input)>>]

\* HmacOperation::Update: the return value, the context afterwards, and what
\* it writes to the caller's input_consumed: <<n>> for the value n, <<>> when
\* it writes nothing.  ok is the result of HMAC_Update.
UpdateResult(ctx, input, ok) ==
    IF ~ok
      THEN [ret |-> KM_ERROR_UNKNOWN_ERROR, ctx_ |-> HMAC_Update(ctx, input, FALSE),
            input_consumed |-> <<>>]
      ELSE [ret |-> KM_ERROR_OK, ctx_ |-> HMAC_Update(ctx, input, TRUE),
            input_consumed |-> <<Len(input)>>]

\* memcmp(a, b, n) for a buffer a of at least n bytes and the digest array b,
\* whose bytes past the computed digest are not initialized.
Memcmp(a, b, n) ==
    LET diff == {i \in 1..n : i > Len(a) \/ i > Len(b) \/ a[i] # b[i]}
        first == CHOOSE i \in diff : \A j \in diff : i <= j
    IN  IF diff = {} THEN 0
        ELSE IF first <= Len(b) /\ a[first] < b[first] THEN -1 ELSE 1

\* How far memcmp reads, which the C library does not promise: up to the
\* first differing byte, or all n bytes.
MemcmpScans == {"first difference", "all"}

\* The number of bytes memcmp(a, b, n) inspects under a scan.
MemcmpInspected(a, b, n, scan) ==
    LET diff == {i \in 1..n : i > Len(a) \/ i > Len(b) \/ a[i] # b[i]}
    IN  IF scan = "all" \/ diff = {} THEN n
        ELSE CHOOSE i \in diff : \A j \in diff : i <= j

\* The bytes the memcmp of Finish inspects: it runs in the VERIFY branch once
\* HMAC_Final has succeeded and the supplied tag has the length tag_length_.
FinishCompared(purpose, tag_length, digest, signature, ok, scan) ==
    IF ok /\ purpose = KM_PURPOSE_VERIFY /\ SizeEq(Len(signature), tag_length)
      THEN MemcmpInspected(signature, digest, SizeVal(tag_length), scan)
      ELSE 0

FinishResult_OtherPurposeSigns(purpose, tag_length, digest, signature, output, ok) ==
    IF ~ok
      THEN [ret |-> KM_ERROR_UNKNOWN_ERROR, output |-> output, overread |-> FALSE]
    ELSE IF purpose = KM_PURPOSE_VERIFY
      THEN [ret |-> KM_ERROR_INVALID_INPUT_LENGTH, output |-> output, overread |-> FALSE]
    ELSE [ret |-> KM_ERROR_OK, output |-> output \o digest, overread |-> FALSE]

FinishResult_DispatchFirst(purpose, tag_length, digest, signature, output, ok) ==
    IF purpose = KM_PURPOSE_VERIFY /\ ~SizeEq(Len(signature), tag_length)
      THEN [ret |-> KM_ERROR_INVALID_INPUT_LENGTH, output |-> output, overread |-> FALSE]
    ELSE IF purpose \notin {KM_PURPOSE_SIGN, KM_PURPOSE_VERIFY}
      THEN [ret |-> KM_ERROR_UNSUPPORTED_PURPOSE, output |-> output, overread |-> FALSE]
    ELSE [ret |-> KM_ERROR_UNKNOWN_ERROR, output |-> output, overread |-> FALSE]

FinishResult_VerifyWrites(purpose, tag_length, digest, signature, output, ok) ==
    IF ~ok
      THEN [ret |-> KM_ERROR_UNKNOWN_ERROR, output |-> output, overread |-> FALSE]
    ELSE IF purpose = KM_PURPOSE_VERIFY
      THEN [ret |-> IF SizeEq(Len(signature), tag_length)
                      THEN KM_ERROR_VERIFICATION_FAILED
                      ELSE KM_ERROR_INVALID_INPUT_LENGTH,
            output |-> output \o digest, overread |-> FALSE]
    ELSE [ret |-> KM_ERROR_UNSUPPORTED_PURPOSE, output |-> output, overread |-> FALSE]

FinishVerify_ShortCompare(tag_length, digest, signature) ==
    IF ~SizeEq(Len(signature), tag_length) THEN KM_ERROR_INVALID_INPUT_LENGTH
    ELSE IF Memcmp(signature, digest, SizeVal(tag_length) - 1) # 0
      THEN KM_ERROR_VERIFICATION_FAILED
    ELSE KM_ERROR_OK

FinishVerify_LengthAtLeast(tag_length, digest, signature) ==
    IF ~FitsInt(tag_length) \/ Len(signature) < SizeVal(tag_length)
      THEN KM_ERROR_INVALID_INPUT_LENGTH
    ELSE IF Memcmp(signature, digest, SizeVal(tag_length)) # 0
      THEN KM_ERROR_VERIFICATION_FAILED
    ELSE KM_ERROR_OK

\* The VERIFY branch of Finish.
FinishVerify(tag_length, digest, signature) ==
    IF ~SizeEq(Len(signature), tag_length) THEN KM_ERROR_INVALID_INPUT_LENGTH
    ELSE IF Memcmp(signature, digest, SizeVal(tag_length)) # 0
      THEN KM_ERROR_VERIFICATION_FAILED
    ELSE KM_ERROR_OK

FinishSign_WholeDigest(tag_length, digest) == digest

FinishSign_LastBytes(tag_length, digest) ==
    SubSeq(digest, Len(digest) - SizeVal(tag_length) + 1, Len(digest))

\* The bytes output->write(digest, tag_length_) appends when tag_length_ bytes
\* of the digest exist.
FinishSign(tag_length, digest) == Take(digest, SizeVal(tag_length))

\* HmacOperation::Finish after HMAC_Final, which returned ok and produced
\* digest: the return value and the output buffer.  A write of more bytes
\* than the digest holds is marked by overread.
FinishResult(purpose, tag_length, digest, signature, output, ok) ==
    IF ~ok
      THEN [ret |-> KM_ERROR_UNKNOWN_ERROR, output |-> output, overread |-> FALSE]
    ELSE IF purpose = KM_PURPOSE_SIGN
      THEN IF SizeLeq(tag_length, Len(digest))
             THEN [ret |-> KM_ERROR_OK, output |-> output \o FinishSign(tag_length, digest),
                   overread |-> FALSE]
             ELSE [ret |-> KM_ERROR_OK, output |-> output \o digest, overread |-> TRUE]
    ELSE IF purpose = KM_PURPOSE_VERIFY
      THEN [ret |-> FinishVerify(tag_length, digest, signature), output |-> output,
            overread |-> FALSE]
    ELSE [ret |-> KM_ERROR_UNSUPPORTED_PURPOSE, output |-> output, overread |-> FALSE]

(***************************************************************************)
(* State.                                                                  *)
(***************************************************************************)
VARIABLES
    life,            \* "live", "destroyed", or "crashed" (the process died in a call)
    purpose_,        \* Operation::purpose()
    error_,          \* HmacOperation::error_
    tag_length_,     \* HmacOperation::tag_length_
    ctx_,            \* HmacOperation::ctx_
    output,          \* the caller's output Buffer: the bytes written to it
    call,            \* the last call on the instance: its name, return value, supplied
                     \* tag, what the hash engine answered in it, what it wrote
                     \* to the caller's input_consumed (<<n>>, or <<>> for nothing),
                     \* and the number of bytes its memcmp inspected
    arg,             \* history: the constructor's arguments
    fed,             \* history: the inputs of the Update calls, concatenated
    nupd,            \* history: the number of Update calls
    engineOk,        \* history: no call of the hash engine has failed
    finished,        \* history: Finish has been called
    overread,        \* history: Finish copied bytes from past the computed digest
    computed,        \* history: the digest HMAC_Final produced in Finish, <<>> if none
    eng,             \* history: calls of HMAC_CTX_init, HMAC_Final, HMAC_CTX_cleanup
    kept             \* what the caller keeps of the operation before this one

vars == <<life, purpose_, error_, tag_length_, ctx_, output, call,
          arg, fed, nupd, engineOk, finished, overread, computed, eng, kept>>

inst == <<purpose_, error_, tag_length_, ctx_>>

(***************************************************************************)
(* Inputs.                                                                 *)
(***************************************************************************)
MsgBytes == {0, 1}
Keys == {<<>>, <<1>>}
Chunks == SeqsUpTo(MsgBytes, MaxMsgLen)

\* Tag lengths for a digest selector: 0, 28 (the smallest native size), the
\* selected hash function's native size and one more, and lengths around the
\* limits of int and of 32 bits: 2^31 - 1, 2^31, 2^32 + 5.
LargeTagLengths == {<<0, 0, 32767, 65535>>, <<0, 0, 32768, 0>>, <<0, 1, 0, 5>>}
TagLengths(digest) ==
    LET md == SelectMd(digest)
        n == IF md = NoMd THEN EVP_MAX_MD_SIZE ELSE EVP_MD_size(md)
    IN  {SizeT(k) : k \in {0, 28, n, n + 1}} \cup LargeTagLengths

NoCall ==
    [name |-> "HmacOperation", ret |-> "", engine |-> "none", signature |-> <<>>,
     input_consumed |-> <<>>, compared |-> 0]
NoKept == [purpose |-> "", ret |-> "", output |-> <<>>, fed |-> <<>>, nupd |-> 0]

\* The tag an untampered verifier would present: the leading tag_length_ bytes
\* of the HMAC of what was fed, when the arguments define one.
TrueTag ==
    LET md == SelectMd(arg.digest)
    IN  IF md # NoMd /\ SizeLeq(arg.tag_length, EVP_MD_size(md))
          THEN Take(HMAC(md, arg.key_data, fed), SizeVal(arg.tag_length))
          ELSE <<>>

\* Supplied tags.  For VERIFY: the true one, with a bit flipped in its first
\* or last byte, one byte short, one byte long, empty, all zero, and the tag
\* the caller keeps from the operation before.  For the other purposes: none,
\* or the true one.
Signatures ==
    LET t == TrueTag
    IN  IF purpose_ # KM_PURPOSE_VERIFY THEN {<<>>, t \o <<0>>}
        ELSE {t, t \o <<0>>, <<>>, [i \in 1..Len(t) |-> 0], kept.output}
             \cup (IF t = <<>> THEN {} ELSE {FlipAt(t, 1, 0), FlipAt(t, Len(t), 7),
                                              Take(t, Len(t) - 1)})

(***************************************************************************)
(* Construction.                                                           *)
(***************************************************************************)
\* The state right after HmacOperation(purpose, key_data, digest, tag_length)
\* has run, HMAC_Init_ex answering initOk if it is reached.
Fresh(purpose, key_data, digest, tag_length, initOk) ==
    LET o == HmacOperation(purpose, key_data, digest, tag_length, initOk)
    IN  [life |-> "live", purpose_ |-> o.purpose_, error_ |-> o.error_,
         tag_length_ |-> o.tag_length_, ctx_ |-> o.ctx_,
         output |-> <<>>, call |-> NoCall,
         arg |-> [purpose |-> purpose, key_data |-> key_data, digest |-> digest,
                  tag_length |-> tag_length],
         fed |-> <<>>, nupd |-> 0,
         engineOk |-> (o.error_ # KM_ERROR_OK \/ initOk),
         finished |-> FALSE, overread |-> FALSE, computed |-> <<>>,
         eng |-> [inits |-> 1, finals |-> 0, cleanups |-> 0]]

Construct(purpose, key_data, digest, tag_length, initOk) ==
    LET f == Fresh(purpose, key_data, digest, tag_length, initOk)
    IN  /\ life = f.life
        /\ purpose_ = f.purpose_
        /\ error_ = f.error_
        /\ tag_length_ = f.tag_length_
        /\ ctx_ = f.ctx_
        /\ output = f.output
        /\ call = f.call
        /\ arg = f.arg
        /\ fed = f.fed
        /\ nupd = f.nupd
        /\ engineOk = f.engineOk
        /\ finished = f.finished
        /\ overread = f.overread
        /\ computed = f.computed
        /\ eng = f.eng

Init ==
    /\ \E purpose \in Purposes, key_data \in Keys, digest \in Digests, initOk \in BOOLEAN :
          \E tag_length \in TagLengths(digest) :
            Construct(purpose, key_data, digest, tag_length, initOk)
    /\ kept = NoKept

(***************************************************************************)
(* The calls.                                                              *)
(***************************************************************************)
Begin ==
    /\ life = "live"
    /\ call' = [name |-> "Begin", ret |-> BeginResult(error_), engine |-> "none",
                signature |-> <<>>, input_consumed |-> <<>>, compared |-> 0]
    /\ UNCHANGED <<life, inst, output, arg, fed, nupd, engineOk,
                   finished, overread, computed, eng, kept>>

Abort ==
    /\ life = "live"
    /\ call' = [name |-> "Abort", ret |-> AbortResult, engine |-> "none",
                signature |-> <<>>, input_consumed |-> <<>>, compared |-> 0]
    /\ UNCHANGED <<life, inst, output, arg, fed, nupd, engineOk,
                   finished, overread, computed, eng, kept>>

\* The process dies inside a call of the instance.
Crash(name, signature) ==
    /\ life' = "crashed"
    /\ call' = [name |-> name, ret |-> "", engine |-> "crash", signature |-> signature,
                input_consumed |-> <<>>, compared |-> 0]

\* The caller's discipline: Update and Finish come before Finish, on an
\* instance that is alive.
Callable == life = "live" /\ ~finished

\* What the engine does with a context that was never keyed, which its
\* contract does not cover: it returns failure, or the process dies.
EngineMisuse == {"reject", "crash"}

\* What a write of more bytes than the digest array holds does: the process
\* dies, bytes from past the array are copied, or the sink refuses the size.
Overreads == {"crash", "copy", "refuse"}

Update(input, ok, bad) ==
    /\ Callable
    /\ nupd < MaxUpdates /\ Len(fed) + Len(input) <= MaxMsgLen
    /\ fed' = fed \o input
    /\ nupd' = nupd + 1
    /\ IF ~Keyed(ctx_) /\ bad = "crash"
         THEN /\ Crash("Update", <<>>)
              /\ UNCHANGED <<ctx_, engineOk>>
         ELSE LET r == UpdateResult(ctx_, input, Keyed(ctx_) /\ ok)
              IN  /\ ctx_' = r.ctx_
                  /\ call' = [name |-> "Update", ret |-> r.ret,
                              engine |-> IF Keyed(ctx_) /\ ok THEN "ok" ELSE "fail",
                              signature |-> <<>>, input_consumed |-> r.input_consumed,
                              compared |-> 0]
                  /\ engineOk' = (engineOk /\ Keyed(ctx_) /\ ok)
                  /\ UNCHANGED life
    /\ UNCHANGED <<purpose_, error_, tag_length_, output, arg, finished, overread,
                   computed, eng, kept>>

Finish(signature, ok, bad, ub, scan) ==
    /\ Callable
    /\ finished' = TRUE
    /\ eng' = [eng EXCEPT !.finals = @ + 1]
    /\ IF ~Keyed(ctx_) /\ bad = "crash"
         THEN /\ Crash("Finish", signature)
              /\ UNCHANGED <<ctx_, output, engineOk, overread, computed>>
         ELSE LET final == Keyed(ctx_) /\ ok
                  md == IF final THEN HMAC(ctx_.md, ctx_.key, ctx_.data) ELSE <<>>
                  r == FinishResult(purpose_, tag_length_, md, signature, output, final)
              IN  /\ ctx_' = HMAC_Final(ctx_, final)
                  /\ computed' = md
                  /\ engineOk' = (engineOk /\ final)
                  /\ overread' = r.overread
                  /\ IF r.overread /\ ub = "crash"
                       THEN /\ Crash("Finish", signature)
                            /\ UNCHANGED output
                       ELSE /\ call' = [name |-> "Finish", ret |-> r.ret,
                                        engine |-> IF final THEN "ok" ELSE "fail",
                                        signature |-> signature,
                                        input_consumed |-> <<>>,
                                        compared |-> FinishCompared(purpose_,
                                            tag_length_, md, signature, final, scan)]
                            /\ output' = IF r.overread /\ ub = "refuse"
                                           THEN output ELSE r.output
                            /\ UNCHANGED life
    /\ UNCHANGED <<purpose_, error_, tag_length_, arg, fed, nupd, kept>>

Destroy_Leaks ==
    /\ life = "live"
    /\ life' = "destroyed"
    /\ UNCHANGED <<inst, eng, output, call, arg,
                   fed, nupd, engineOk, finished, overread, computed, kept>>

\* HmacOperation::~HmacOperation.
Destroy ==
    /\ life = "live"
    /\ life' = "destroyed"
    /\ ctx_' = HMAC_CTX_cleanup(ctx_)
    /\ eng' = [eng EXCEPT !.cleanups = @ + 1]
    /\ UNCHANGED <<purpose_, error_, tag_length_, output, call, arg,
                   fed, nupd, engineOk, finished, overread, computed, kept>>

\* The outcomes a call can have in the current state.
EngineResults == IF Keyed(ctx_) THEN BOOLEAN ELSE {FALSE}
MisuseNow == IF Keyed(ctx_) THEN {"reject"} ELSE EngineMisuse
OverreadsNow ==
    IF purpose_ = KM_PURPOSE_SIGN /\ Keyed(ctx_) /\ ~SizeLeq(tag_length_, EVP_MD_size(ctx_.md))
      THEN Overreads ELSE {"copy"}

ScansNow(signature) ==
    IF purpose_ = KM_PURPOSE_VERIFY /\ Keyed(ctx_) /\ SizeEq(Len(signature), tag_length_)
         /\ Len(signature) > 0
      THEN MemcmpScans ELSE {"all"}

UpdateCall ==
    /\ Callable
    /\ \E input \in Chunks, ok \in EngineResults, bad \in MisuseNow : Update(input, ok, bad)

FinishCall ==
    /\ Callable
    /\ \E signature \in Signatures, ok \in EngineResults, bad \in MisuseNow,
          ub \in OverreadsNow :
           \E scan \in ScansNow(signature) : Finish(signature, ok, bad, ub, scan)

Next == Begin \/ UpdateCall \/ FinishCall \/ Abort \/ Destroy

Spec == Init /\ [][Next]_vars

(***************************************************************************)
(* Two operations in a row.  A SIGN operation with a supported digest and a *)
(* tag length within its native size is fed a message in at most one       *)
(* Update call, runs to Finish and is destroyed; the caller keeps its      *)
(* output and constructs a second operation with the same key, digest and  *)
(* tag length, which it feeds in any chunking.  The hash engine answers    *)
(* every call.                                                             *)
(***************************************************************************)
PairTagLengths(digest) ==
    {t \in TagLengths(digest) : SizeLeq(t, EVP_MD_size(SelectMd(digest)))}

PairInit ==
    /\ \E key_data \in Keys, digest \in SupportedDigests :
          \E tag_length \in PairTagLengths(digest) :
            Construct(KM_PURPOSE_SIGN, key_data, digest, tag_length, TRUE)
    /\ kept = NoKept

\* The first operation is fed its message in at most one Update call.
PairUpdate ==
    /\ Callable
    /\ kept = NoKept => nupd = 0
    /\ \E input \in Chunks : Update(input, TRUE, "reject")

PairFinish ==
    /\ Callable
    /\ \E signature \in Signatures :
          \E scan \in ScansNow(signature) : Finish(signature, TRUE, "reject", "copy", scan)

PairDestroy == kept = NoKept /\ Destroy

\* The second operation is constructed once the first is gone.
Reconstruct(purpose) ==
    LET f == Fresh(purpose, arg.key_data, arg.digest, arg.tag_length, TRUE)
    IN  /\ life = "destroyed" /\ kept = NoKept /\ call.name = "Finish"
        /\ kept' = [purpose |-> arg.purpose, ret |-> call.ret, output |-> output,
                    fed |-> fed, nupd |-> nupd]
        /\ life' = f.life
        /\ purpose_' = f.purpose_
        /\ error_' = f.error_
        /\ tag_length_' = f.tag_length_
        /\ ctx_' = f.ctx_
        /\ output' = f.output
        /\ call' = f.call
        /\ arg' = f.arg
        /\ fed' = f.fed
        /\ nupd' = f.nupd
        /\ engineOk' = f.engineOk
        /\ finished' = f.finished
        /\ overread' = f.overread
        /\ computed' = f.computed
        /\ eng' = f.eng

PairReconstruct == \E purpose \in {KM_PURPOSE_SIGN, KM_PURPOSE_VERIFY} : Reconstruct(purpose)

PairNext == PairUpdate \/ PairFinish \/ PairDestroy \/ PairReconstruct

PairSpec == PairInit /\ [][PairNext]_vars

TypeOK ==
    /\ life \in {"live", "destroyed", "crashed"}
    /\ purpose_ \in Purposes
    /\ Len(fed) <= MaxMsgLen /\ nupd <= MaxUpdates

(***************************************************************************)
(* Properties.                                                             *)
(***************************************************************************)
\* The hash function of the digest the instance was constructed with.
ArgMd == SelectMd(arg.digest)

\* The constructor's arguments name a supported digest D and a tag length
\* L <= native_size(D).
ValidArgs == ArgMd # NoMd /\ SizeLeq(arg.tag_length, EVP_MD_size(ArgMd))

\* Finish has returned (the process did not die in it).
FinishReturned == call.name = "Finish" /\ call.engine # "crash"

\* C1. For a supported digest D, a tag length L <= native_size(D), any key and
\* any sequence of Update calls whose inputs concatenate to M, with the hash
\* engine succeeding in every call: Finish of a SIGN instance returns
\* KM_ERROR_OK and the output holds exactly L bytes, the first L bytes of
\* HMAC-D(key, M), whatever tag was supplied.
C1_SignTruncatedHmac ==
    (call.name = "Finish" /\ arg.purpose = KM_PURPOSE_SIGN /\ ValidArgs /\ engineOk)
        => /\ call.ret = KM_ERROR_OK
           /\ Len(output) = SizeVal(arg.tag_length)
           /\ output = Take(HMAC(ArgMd, arg.key_data, fed), SizeVal(arg.tag_length))

\* C1 witness: a SIGN instance fed two bytes in two Update calls returned a
\* truncated, non-empty tag although a tag was supplied.
C1_Witness ==
    /\ call.name = "Finish" /\ arg.purpose = KM_PURPOSE_SIGN /\ ValidArgs /\ engineOk
    /\ arg.digest = KM_DIGEST_SHA_2_512 /\ arg.tag_length = SizeT(28)
    /\ arg.key_data # <<>>
    /\ nupd = 2 /\ fed = <<0, 1>>
    /\ call.signature # <<>>
    /\ call.ret = KM_ERROR_OK /\ Len(output) = 28

\* C4. On a VERIFY instance whose Finish computed the HMAC: a supplied tag of
\* length L that differs from the first L bytes of the computed HMAC yields
\* KM_ERROR_VERIFICATION_FAILED; and whenever Finish returns KM_ERROR_OK under
\* VERIFY, the supplied tag equals those L bytes.
C4_TamperSensitivity ==
    /\ (FinishReturned /\ purpose_ = KM_PURPOSE_VERIFY /\ call.engine = "ok"
          /\ SizeEq(Len(call.signature), tag_length_)
          /\ call.signature # Take(computed, Len(call.signature)))
        => call.ret = KM_ERROR_VERIFICATION_FAILED
    /\ (FinishReturned /\ purpose_ = KM_PURPOSE_VERIFY /\ call.ret = KM_ERROR_OK)
        => /\ call.engine = "ok"
           /\ SizeLeq(tag_length_, Len(computed))
           /\ call.signature = Take(computed, SizeVal(tag_length_))

\* C4 witness: a 64-byte tag whose last byte has its top bit flipped was
\* refused with KM_ERROR_VERIFICATION_FAILED.
C4_Witness ==
    /\ FinishReturned /\ purpose_ = KM_PURPOSE_VERIFY /\ call.engine = "ok"
    /\ tag_length_ = SizeT(64) /\ Len(call.signature) = 64
    /\ call.signature = FlipAt(Take(computed, 64), 64, 7)
    /\ fed # <<>>
    /\ call.ret = KM_ERROR_VERIFICATION_FAILED

\* C5. Under VERIFY, Finish given a supplied tag whose length is not
\* tag_length_ never returns KM_ERROR_OK or KM_ERROR_VERIFICATION_FAILED, whatever
\* the tag holds, and returns KM_ERROR_INVALID_INPUT_LENGTH when the HMAC was
\* computed.
C5_WrongTagLength ==
    (FinishReturned /\ purpose_ = KM_PURPOSE_VERIFY
      /\ ~SizeEq(Len(call.signature), tag_length_))
        => /\ call.ret \notin {KM_ERROR_OK, KM_ERROR_VERIFICATION_FAILED}
           /\ call.engine = "ok" => call.ret = KM_ERROR_INVALID_INPUT_LENGTH

\* C5 witness: a tag one byte longer than tag_length_ whose leading bytes are
\* the computed tag was refused for its length.
C5_Witness ==
    /\ FinishReturned /\ purpose_ = KM_PURPOSE_VERIFY /\ call.engine = "ok"
    /\ tag_length_ = SizeT(32)
    /\ call.signature = Take(computed, 32) \o <<0>>
    /\ call.ret = KM_ERROR_INVALID_INPUT_LENGTH

\* C2. Chunking invariance, for SIGN operations with a supported digest and a
\* tag length within its native size: a second operation with the same key,
\* digest and tag length, fed in any number of Update calls the message the
\* first was fed in one call, finishes with the same result code and the same
\* output as the first.
C2_ChunkingInvariance ==
    (call.name = "Finish" /\ arg.purpose = KM_PURPOSE_SIGN
      /\ kept.purpose = KM_PURPOSE_SIGN /\ fed = kept.fed)
        => call.ret = kept.ret /\ output = kept.output

\* C2 witness: the message fed in one call to the first operation and in two
\* calls to the second gave the same non-empty tag.
C2_Witness ==
    /\ call.name = "Finish" /\ arg.purpose = KM_PURPOSE_SIGN
    /\ kept.purpose = KM_PURPOSE_SIGN
    /\ kept.nupd = 1 /\ kept.fed = <<0, 1>>
    /\ nupd = 2 /\ fed = <<0, 1>>
    /\ kept.ret = KM_ERROR_OK /\ call.ret = KM_ERROR_OK
    /\ output = kept.output /\ Len(output) = 32

\* C3. Round trip: the bytes Finish of a SIGN operation wrote, supplied as the
\* tag to Finish of a VERIFY operation with the same key, digest and tag
\* length that was fed the same message in any chunking, make that Finish
\* return KM_ERROR_OK.
C3_RoundTrip ==
    (call.name = "Finish" /\ arg.purpose = KM_PURPOSE_VERIFY
      /\ kept.purpose = KM_PURPOSE_SIGN /\ kept.ret = KM_ERROR_OK
      /\ fed = kept.fed /\ call.signature = kept.output)
        => call.ret = KM_ERROR_OK

\* C3 witness: a 28-byte tag of SHA-384 signed over a message fed in one call
\* verified over the same message fed in two calls.
C3_Witness ==
    /\ call.name = "Finish" /\ arg.purpose = KM_PURPOSE_VERIFY
    /\ kept.purpose = KM_PURPOSE_SIGN /\ kept.ret = KM_ERROR_OK
    /\ arg.digest = KM_DIGEST_SHA_2_384 /\ arg.tag_length = SizeT(28)
    /\ kept.nupd = 1 /\ nupd = 2 /\ fed = <<1, 0>> /\ kept.fed = fed
    /\ call.signature = kept.output /\ Len(kept.output) = 28
    /\ call.ret = KM_ERROR_OK

\* C6, as claimed: for a supported digest and a tag length above its native
\* size, anywhere in the range of size_t, Begin returns
\* KM_ERROR_UNSUPPORTED_MAC_LENGTH; whenever Begin returns KM_ERROR_OK the stored
\* tag length is within the native size.
C6_TagLengthRejected ==
    /\ (call.name = "Begin" /\ ArgMd # NoMd
          /\ ~SizeLeq(arg.tag_length, EVP_MD_size(ArgMd)))
        => call.ret = KM_ERROR_UNSUPPORTED_MAC_LENGTH
    /\ (call.name = "Begin" /\ call.ret = KM_ERROR_OK)
        => SizeLeq(tag_length_, EVP_MD_size(ArgMd))

\* C7, as claimed: after construction with an unsupported digest selector
\* the latched error is KM_ERROR_UNSUPPORTED_DIGEST whatever the tag length, no
\* key is bound, Begin returns the latched error, and no later call ends in
\* a crash.
C7_UnsupportedDigest ==
    ArgMd = NoMd
        => /\ error_ = KM_ERROR_UNSUPPORTED_DIGEST
           /\ ctx_.st # "keyed" /\ ctx_.key = <<>>
           /\ call.name = "Begin" => call.ret = KM_ERROR_UNSUPPORTED_DIGEST
           /\ life # "crashed"

\* A step that is a call of Begin, of Update, of Abort.
BeginStep == call'.name = "Begin" /\ life = "live" /\ life' = "live"
UpdateStep == nupd' = nupd + 1 /\ life' = "live"
AbortStep == call'.name = "Abort" /\ life = "live" /\ life' = "live"

\* C8. Begin returns the error code the constructor latched (KM_ERROR_OK if
\* none) at every point of the lifecycle, and leaves the latched error, the
\* tag length and the hash-engine context unchanged.
C8_BeginFrame ==
    [][BeginStep =>
        /\ call'.ret = error_
        /\ call'.ret = HmacOperation(arg.purpose, arg.key_data, arg.digest,
                                     arg.tag_length, TRUE).error_
        /\ UNCHANGED <<error_, tag_length_, ctx_, eng>>]_vars

\* C8 witness: Begin, called after two Updates and a Finish, returned the
\* latched KM_ERROR_UNSUPPORTED_MAC_LENGTH.
C8_Witness ==
    /\ call.name = "Begin" /\ life = "live"
    /\ finished /\ nupd = 2
    /\ call.ret = KM_ERROR_UNSUPPORTED_MAC_LENGTH

\* C9. Update never consumes partially: when the hash engine accepts the
\* data it returns KM_ERROR_OK and sets input_consumed to the length of the
\* input; when the engine rejects the data it returns KM_ERROR_UNKNOWN_ERROR and
\* writes nothing to input_consumed; it never writes to the output buffer.
C9_UpdateConsumption ==
    [][UpdateStep =>
        /\ call'.name = "Update"
        /\ output' = output
        /\ call'.engine = "ok"
             => /\ call'.ret = KM_ERROR_OK
                /\ call'.input_consumed = <<Len(fed') - Len(fed)>>
        /\ call'.engine # "ok"
             => /\ call'.ret = KM_ERROR_UNKNOWN_ERROR
                /\ call'.input_consumed = <<>>]_vars

\* C9 witness: after an accepted one-byte Update, a one-byte Update was
\* rejected by the engine: the context holds the first byte only, nothing was
\* written to input_consumed, and KM_ERROR_UNKNOWN_ERROR came back.
C9_Witness ==
    /\ call.name = "Update" /\ call.engine = "fail" /\ life = "live"
    /\ Keyed(ctx_)
    /\ nupd = 2 /\ fed = <<0, 1>> /\ ctx_.data = <<0>>
    /\ call.input_consumed = <<>>
    /\ call.ret = KM_ERROR_UNKNOWN_ERROR

\* C10. Abort returns KM_ERROR_OK in every state of the instance and leaves
\* the latched error, the tag length, the hash-engine context and the
\* caller's buffers unchanged; it calls nothing of the hash engine.
C10_AbortFrame ==
    [][AbortStep =>
        /\ call'.ret = KM_ERROR_OK
        /\ call'.input_consumed = <<>>
        /\ UNCHANGED <<error_, tag_length_, ctx_, output, eng, computed>>]_vars

\* C10 witness: Abort returned KM_ERROR_OK on an instance with a latched
\* KM_ERROR_UNSUPPORTED_DIGEST, after two Updates.
C10_Witness ==
    /\ call.name = "Abort" /\ life = "live"
    /\ error_ = KM_ERROR_UNSUPPORTED_DIGEST /\ nupd = 2
    /\ call.ret = KM_ERROR_OK

\* C11. On every lifecycle path the hash-engine context is initialized exactly
\* once, and before the digest and the tag length are validated (an instance
\* with a latched error holds an initialized context); no call on a live
\* instance releases it; destruction releases it, exactly once.
C11_ContextLifetime ==
    /\ eng.inits = 1
    /\ eng.cleanups <= 1
    /\ life = "live" => eng.cleanups = 0 /\ ctx_.st # "clean"
    /\ (life = "live" /\ error_ # KM_ERROR_OK) => ctx_ = HMAC_CTX_init
    /\ life = "destroyed" => eng.cleanups = 1 /\ ctx_ = HMAC_CTX_cleanup(ctx_)

\* C11 witness: an instance whose construction failed on the tag length was
\* destroyed after Update, Finish and Abort, and its context was released once.
C11_Witness ==
    /\ life = "destroyed" /\ error_ = KM_ERROR_UNSUPPORTED_MAC_LENGTH
    /\ nupd > 0 /\ finished /\ call.name = "Abort"
    /\ eng.inits = 1 /\ eng.cleanups = 1 /\ ctx_.st = "clean"

\* A step that is a call of Finish.
FinishStep == ~finished /\ finished'

\* C12. Finish on an instance whose purpose is neither SIGN nor VERIFY writes
\* nothing to the output and, when finalization of the hash engine
\* succeeded, returns KM_ERROR_UNSUPPORTED_PURPOSE.
C12_UnsupportedPurpose ==
    [][(FinishStep /\ purpose_ \notin {KM_PURPOSE_SIGN, KM_PURPOSE_VERIFY})
        => /\ output' = output
           /\ call'.engine = "ok" => call'.ret = KM_ERROR_UNSUPPORTED_PURPOSE]_vars

\* C12 witness: Finish of an ENCRYPT instance that was fed two bytes and
\* whose digest was computed returned KM_ERROR_UNSUPPORTED_PURPOSE.
C12_Witness ==
    /\ FinishReturned /\ purpose_ = KM_PURPOSE_ENCRYPT
    /\ call.engine = "ok" /\ Len(computed) = 48 /\ Len(fed) = 2
    /\ call.signature # <<>>
    /\ call.ret = KM_ERROR_UNSUPPORTED_PURPOSE /\ output = <<>>

\* C13, as claimed: the VERIFY comparison of Finish inspects all tag_length_
\* bytes of the supplied tag whatever the computed digest holds, so that two
\* runs with the same supplied tag and tag length but different digests
\* inspect the same number of bytes.
C13_ConstantTimeCompare ==
    (FinishReturned /\ purpose_ = KM_PURPOSE_VERIFY /\ call.engine = "ok"
      /\ SizeEq(Len(call.signature), tag_length_))
        => call.compared = SizeVal(tag_length_)

\* C14, as claimed: whenever Begin returns KM_ERROR_OK on an instance that
\* has not been finished, the context is keyed with the key and the hash
\* function selected at construction; for a supported digest and a tag length
\* within its native size, construction records no error and leaves the
\* context keyed, whatever the key-binding call of the hash engine reports.
C14_BeginOkMeansKeyed ==
    /\ (call.name = "Begin" /\ call.ret = KM_ERROR_OK /\ ~finished)
        => /\ Keyed(ctx_)
           /\ ctx_.md = ArgMd /\ ctx_.key = arg.key_data
    /\ (ValidArgs /\ life = "live" /\ ~finished)
        => error_ = KM_ERROR_OK /\ Keyed(ctx_)

\* An error of the instance has happened: construction latched one, or a
\* call of the hash engine on the keyed context has failed.
ErrorHappened == error_ # KM_ERROR_OK \/ (~engineOk /\ ctx_.st # "init")

\* C15, as claimed: once construction has latched an error or an Update has
\* returned KM_ERROR_UNKNOWN_ERROR, no later Update or Finish on the instance
\* returns KM_ERROR_OK or writes tag bytes to the output.
C15_ErrorsTerminal ==
    (call.name \in {"Update", "Finish"} /\ call.engine # "crash" /\ ErrorHappened)
        => call.ret # KM_ERROR_OK /\ output = <<>>

\* C16. Every call of Finish finalizes the hash engine exactly once, and no
\* other call finalizes it; when finalization fails Finish returns
\* KM_ERROR_UNKNOWN_ERROR and writes nothing, whatever the purpose and the
\* supplied tag are: the failure is decided before the purpose is looked at.
C16_FinalizeOnce ==
    [][/\ FinishStep
           => /\ eng'.finals = eng.finals + 1
              /\ call'.engine = "fail"
                   => call'.ret = KM_ERROR_UNKNOWN_ERROR /\ output' = output
       /\ ~FinishStep => eng'.finals = eng.finals]_vars

\* C16 witness: finalization failed on a keyed VERIFY instance given a tag
\* one byte longer than tag_length_; Finish returned KM_ERROR_UNKNOWN_ERROR, not
\* KM_ERROR_INVALID_INPUT_LENGTH, after the one finalization.
C16_Witness ==
    /\ FinishReturned /\ purpose_ = KM_PURPOSE_VERIFY /\ Keyed(ctx_)
    /\ call.engine = "fail" /\ eng.finals = 1
    /\ tag_length_ = SizeT(32) /\ Len(call.signature) = 33
    /\ call.ret = KM_ERROR_UNKNOWN_ERROR

\* C17, as claimed: in every state in which Finish has taken the SIGN branch
\* the number of bytes copied to the output, tag_length_, is at most the
\* number of digest bytes the finalization produced, hence at most
\* EVP_MAX_MD_SIZE, and Finish has read nothing past the computed digest.
C17_SignWithinDigest ==
    (finished /\ purpose_ = KM_PURPOSE_SIGN /\ computed # <<>>)
        => /\ SizeLeq(tag_length_, Len(computed))
           /\ SizeLeq(tag_length_, EVP_MAX_MD_SIZE)
           /\ ~overread

\* C18. Finish writes to the output buffer only on the SIGN branch, in a call
\* that finalized the hash engine and returns KM_ERROR_OK: under VERIFY, under
\* any other purpose and when finalization fails the output is unchanged.
C18_FinishOutputFrame ==
    [][FinishStep =>
        /\ output' # output
             => /\ purpose_ = KM_PURPOSE_SIGN
                /\ call'.ret = KM_ERROR_OK /\ call'.engine = "ok"
        /\ (purpose_ # KM_PURPOSE_SIGN \/ call'.engine # "ok") => output' = output]_vars

\* C18 witness: a VERIFY Finish that matched a 64-byte tag returned
\* KM_ERROR_OK and left the output empty.
C18_Witness ==
    /\ FinishReturned /\ purpose_ = KM_PURPOSE_VERIFY /\ call.engine = "ok"
    /\ tag_length_ = SizeT(64) /\ call.signature = computed
    /\ nupd = 2
    /\ call.ret = KM_ERROR_OK /\ output = <<>>

\* C19. A tag length of 0 is accepted at construction for every supported
\* digest (no error is latched, Begin returns KM_ERROR_OK).  On such an
\* instance, when the hash engine computed the digest, SIGN Finish appends no
\* byte and returns KM_ERROR_OK, and VERIFY Finish returns KM_ERROR_OK for the
\* empty supplied tag and KM_ERROR_INVALID_INPUT_LENGTH for any other.
C19_ZeroTagLength ==
    (ArgMd # NoMd /\ arg.tag_length = SizeT(0))
        => /\ error_ = KM_ERROR_OK
           /\ call.name = "Begin" => call.ret = KM_ERROR_OK
           /\ (FinishReturned /\ call.engine = "ok" /\ purpose_ = KM_PURPOSE_SIGN)
                => call.ret = KM_ERROR_OK /\ output = <<>>
           /\ (FinishReturned /\ call.engine = "ok" /\ purpose_ = KM_PURPOSE_VERIFY)
                => call.ret = IF call.signature = <<>> THEN KM_ERROR_OK
                              ELSE KM_ERROR_INVALID_INPUT_LENGTH

\* C19 witness: a VERIFY instance with tag length 0 and a non-empty key, fed
\* two bytes, accepted the empty tag.
C19_Witness ==
    /\ FinishReturned /\ call.engine = "ok" /\ purpose_ = KM_PURPOSE_VERIFY
    /\ ArgMd = EVP_sha512 /\ arg.tag_length = SizeT(0) /\ arg.key_data # <<>>
    /\ Len(fed) = 2 /\ Len(computed) = 64
    /\ call.signature = <<>> /\ call.ret = KM_ERROR_OK

=============================================================================
